---- MODULE Spec2Model ----
(***************************************************************************)
(* Model of smtpd/table_api.c: the table-backend side of the table-proc   *)
(* protocol.  The state is the file-scope state of table_api.c (handler   *)
(* slots, quit, imsg, rdata/rlen, buf), the imsgbuf read and write sides,  *)
(* and the position of table_api_dispatch().  One loop iteration of        *)
(* table_api_dispatch() is one action.                                     *)
(***************************************************************************)
EXTENDS Integers, Sequences, FiniteSets, TLC

(* ----------------------------- bounds ---------------------------------- *)

\* 32-bit words the peer writes as version / key type: 1..MaxWord
MaxWord == 2
\* longest byte string the peer appends after the first word
MaxTail == 2
\* frames the channel delivers in one run
MaxFrames == 2
\* distinct callbacks the backend can register in a slot
NumCb == 2
\* calls of table_api_on_*() before the loop starts
MaxReg == 2
\* the same, where termination is checked
MaxFairReg == 1
\* largest integer a handler returns (the smallest is -1)
MaxRet == 2
\* bytes a lookup/fetch handler leaves in res[] (terminator included)
MaxRes == 2

(* ------------------------- program constants --------------------------- *)

\* sizeof(uint32_t), sizeof(int): the width of version, type and r
IntSize == 4
\* the protocol version of smtpd-api.h; table_api.c only compares with it
PROC_TABLE_API_VERSION == 1

NUL == 0
\* a byte that is not the terminator
CHR == 97

Opcodes ==
    {"PROC_TABLE_OPEN", "PROC_TABLE_UPDATE", "PROC_TABLE_CLOSE",
     "PROC_TABLE_CHECK", "PROC_TABLE_LOOKUP", "PROC_TABLE_FETCH"}

\* imsg.hdr.type values the peer can put on the wire: the six requests and
\* one type the switch does not know (PROC_TABLE_OK, the reply type).
WireTypes == Opcodes \cup {"PROC_TABLE_OK"}

(* ------------------------- bytes and integers -------------------------- *)

\* byte i (1 = least significant) of the 32-bit two's complement of v, in
\* the platform's byte order (little-endian here).  -v-1 is the bitwise
\* complement of v, so its bytes are 255 minus the bytes of v.
ByteOf(v, i) ==
    IF v >= 0 THEN (v \div (256 ^ (i - 1))) % 256
    ELSE 255 - ((((-v) - 1) \div (256 ^ (i - 1))) % 256)

\* the IntSize bytes memmove()/imsg_add() copy for an int object
Enc32(v) == [i \in 1..IntSize |-> ByteOf(v, i)]

\* the int read back from IntSize bytes
Dec32(b) ==
    LET mag(c) == c[1] + 256 * c[2] + 65536 * c[3] + 16777216 * c[4]
    IN  IF b[IntSize] >= 128
        THEN -(mag([i \in 1..IntSize |-> 255 - b[i]])) - 1
        ELSE mag(b)

\* strlen(): bytes before the first NUL of s.  Every caller has a NUL in s
\* (the key checks, the handler's contract for res[]); without one the
\* count stops at the end of what the model holds of the buffer.
strlen(s) ==
    IF \E i \in 1..Len(s) : s[i] = NUL
    THEN (CHOOSE i \in 1..Len(s) : s[i] = NUL /\ \A j \in 1..(i - 1) : s[j] # NUL) - 1
    ELSE Len(s)

\* the C string that starts at s: the bytes before the first NUL
CString(s) == SubSeq(s, 1, strlen(s))

SeqsUpTo(S, n) == UNION {[1..k -> S] : k \in 0..n}

(* ------------------------------ inputs --------------------------------- *)

Words == 1..MaxWord
Tails == SeqsUpTo({NUL, CHR}, MaxTail)

\* payloads the peer sends: a word followed by a tail, cut at any length
\* (so empty, short, exact and overlong payloads of every opcode occur)
Payloads ==
    UNION {{SubSeq(Enc32(w) \o t, 1, n) : n \in 0..(IntSize + Len(t))} :
             w \in Words, t \in Tails}

Frames == [type : WireTypes, data : Payloads]

Rets == (-1)..MaxRet
\* contents of res[] after a handler returned: the handler leaves a
\* NUL-terminated value in it
ResBufs == {s \in SeqsUpTo({NUL, CHR}, MaxRes) : \E i \in 1..Len(s) : s[i] = NUL}

NULL == 0
Callbacks == 1..NumCb

(* ------------------------------- state --------------------------------- *)

VARIABLES
    handler_update, handler_check, handler_lookup, handler_fetch,
    quit,       \* static int quit
    imsg,       \* static struct imsg: the frame imsg_get() decoded last
    rpos,       \* rdata, as an offset into imsg.data
    rlen,       \* static size_t rlen
    buf,        \* static struct ibuf *buf: the reply being built
    navail,     \* complete frames in ibuf's read buffer, not yet decoded
    nframes,    \* frames the channel has delivered so far
    wq,         \* ibuf.w: replies queued, not yet written
    sent,       \* replies written to the channel, in order
    pc,         \* "setup", "loop", "returned" (return 1) or "aborted" (fatalx)
    stop,       \* why the loop ended: the log message written on the way out
    nreg,       \* registrations made
    ndisp,      \* frames handed to table_msg_dispatch
    last,       \* what the last table_msg_dispatch did
    regcall,    \* the table_api_on_*() call the step just taken made, if any
    checks      \* under a pure backend: the CHECKs dispatched since the last
                \* UPDATE, with what handler_check was asked and answered

vars ==
    <<handler_update, handler_check, handler_lookup, handler_fetch, quit, imsg,
      rpos, rlen, buf, navail, nframes, wq, sent, pc, stop, nreg, ndisp, last,
      regcall, checks>>

handlers == <<handler_update, handler_check, handler_lookup, handler_fetch>>

NoBuf == [open |-> FALSE, data |-> <<>>]

NoCall == [called |-> "none", cb |-> NULL, type |-> 0, key |-> <<>>, ret |-> 0]

NoDispatch ==
    [call |-> NoCall, r |-> 0, replies |-> 0, outcome |-> "none", fault |-> "none"]

NoReg == [slot |-> "none", cb |-> NULL]

Init ==
    /\ handler_update = NULL
    /\ handler_check = NULL
    /\ handler_lookup = NULL
    /\ handler_fetch = NULL
    /\ quit = 0
    /\ imsg = [type |-> "PROC_TABLE_OK", data |-> <<>>]
    /\ rpos = 0
    /\ rlen = 0
    /\ buf = NoBuf
    /\ navail = 0
    /\ nframes = 0
    /\ wq = <<>>
    /\ sent = <<>>
    /\ pc = "setup"
    /\ stop = "none"
    /\ nreg = 0
    /\ ndisp = 0
    /\ last = NoDispatch
    /\ regcall = NoReg
    /\ checks = <<>>

(* --------------------------- framing layer ----------------------------- *)

\* a cursor left where the dispatch of the frame before ended
Cursor_NotReset(data) == [fatal |-> FALSE, rpos |-> rpos, rlen |-> Len(data) - rpos]

\* the read cursor over imsg.data: rdata = data + rpos, rlen bytes left
Cursor(data) == [fatal |-> FALSE, rpos |-> 0, rlen |-> Len(data)]

\* table_msg_get without the test of len against rlen
table_msg_get_Unchecked(c, len) ==
    IF len = 0 THEN c
    ELSE [c EXCEPT !.rlen = @ - len, !.rpos = @ + len]

\* table_msg_get(dst, len): fatal when len > rlen, else advance by len
table_msg_get(c, len) ==
    IF len > c.rlen THEN [c EXCEPT !.fatal = TRUE]
    ELSE IF len = 0 THEN c
    ELSE [c EXCEPT !.rlen = @ - len, !.rpos = @ + len]

\* table_msg_end(): fatal when bytes are left
table_msg_end(c) ==
    IF c.rlen # 0 THEN [c EXCEPT !.fatal = TRUE] ELSE c

\* outcomes of the imsg_create()/imsg_add() calls of one table_msg_add()
AddHows(b) == IF b.open THEN {"ok", "add_fail"} ELSE {"ok", "create_fail", "add_fail"}

\* table_msg_add(data, len) on the pending buffer b; how is what the imsg
\* library answers.  fatal: fatalx() was called.
table_msg_add(b, data, how) ==
    IF how = "create_fail" /\ ~b.open
    THEN [fatal |-> TRUE, open |-> FALSE, data |-> <<>>]
    ELSE IF how = "add_fail"
    THEN [fatal |-> TRUE, open |-> TRUE, data |-> b.data]
    ELSE [fatal |-> FALSE, open |-> TRUE, data |-> b.data \o data]

Reply(data) == [type |-> "PROC_TABLE_OK", data |-> data]

\* table_msg_close(): imsg_close() queues the pending buffer as one reply
table_msg_close(b) == <<Reply(b.data)>>

\* an acknowledgement composed with no payload, as the one of OPEN
imsg_compose_NoPayload(data, ok) == IF ok THEN <<Reply(<<>>)>> ELSE <<>>

\* imsg_compose(&ibuf, PROC_TABLE_OK, 0, 0, -1, data, len): queues one reply,
\* or returns -1 and queues nothing; the caller does not look at the result
imsg_compose(data, ok) == IF ok THEN <<Reply(data)>> ELSE <<>>

(* ------------------------- protocol dispatcher ------------------------- *)

\* fatalx() was reached with the cursor at c and the pending buffer b:
\* in table_msg_add() ("table-api: imsg_create/imsg_add failed") when b is
\* the buffer it failed on, else in one of the checks of the request
Abort(c, b, call, r) ==
    [outcome |-> "fatal", rpos |-> c.rpos, rlen |-> c.rlen, quit |-> quit,
     buf |-> [open |-> b.open, data |-> b.data], queued |-> <<>>,
     call |-> call, r |-> r,
     fault |-> IF b.fatal THEN "table_msg_add" ELSE "request"]

\* the switch case ran to its break
Break(c, queued, call, r, q) ==
    [outcome |-> "break", rpos |-> c.rpos, rlen |-> c.rlen, quit |-> q,
     buf |-> NoBuf, queued |-> queued, call |-> call, r |-> r, fault |-> "none"]

NoAdd == [fatal |-> FALSE, open |-> buf.open, data |-> buf.data]

\* KeyOk with the test of rdata[rlen - 1] left out
KeyOk_NoTerminatorCheck(c, data) == c.rlen # 0

\* KeyOk that takes the terminator alone for no key
KeyOk_EmptyKeyRejected(c, data) == c.rlen > 1 /\ data[c.rpos + c.rlen] = NUL

\* the key checks of CHECK and LOOKUP: at least one byte is left and the
\* last byte left, rdata[rlen - 1], is NUL
KeyOk(c, data) == c.rlen # 0 /\ data[c.rpos + c.rlen] = NUL

\* the string the handler reads at rdata
KeyAt(c, data) == CString(SubSeq(data, c.rpos + 1, Len(data)))

\* HasValue with (r >= 1) for (r == 1)
HasValue_AnyPositive(r) == r >= 1

\* if (r == 1): the reply carries the value
HasValue(r) == r = 1

\* HandlerResult with every else branch setting r = 0
HandlerResult_AbsentIsNotFound(h, ret, none) == IF h # NULL THEN ret ELSE 0

\* if (handler) r = handler(...); else r = <none>;
HandlerResult(h, ret, none) == IF h # NULL THEN ret ELSE none

\* the result when the handler slot is NULL
NoUpdateHandler == 1
NoCheckHandler == -1
NoLookupHandler == -1
NoFetchHandler == -1

\* case PROC_TABLE_OPEN.  version is a uint32_t; two 32-bit values are equal
\* exactly when the ints Dec32 reads from their bytes are.
dispatch_open(data, composeOk) ==
    LET c1 == table_msg_get(Cursor(data), IntSize)
        c2 == table_msg_end(c1)
        version == Dec32(SubSeq(data, 1, IntSize))
    IN  IF c1.fatal THEN Abort(c1, NoAdd, NoCall, 0)
        ELSE IF c2.fatal THEN Abort(c2, NoAdd, NoCall, 0)
        ELSE IF version # PROC_TABLE_API_VERSION THEN Abort(c2, NoAdd, NoCall, 0)
        ELSE Break(c2, imsg_compose(<<>>, composeOk), NoCall, 0, quit)

\* case PROC_TABLE_UPDATE with no break, running on into PROC_TABLE_CLOSE
dispatch_update_FallsThrough(data, ret, composeOk) ==
    LET c1 == table_msg_end(Cursor(data))
        call == IF handler_update # NULL
                THEN [called |-> "update", cb |-> handler_update, type |-> 0, key |-> <<>>,
                      ret |-> ret]
                ELSE NoCall
        r == HandlerResult(handler_update, ret, NoUpdateHandler)
    IN  IF c1.fatal THEN Abort(c1, NoAdd, NoCall, 0)
        ELSE Break(c1, imsg_compose(Enc32(r), composeOk), call, r, 1)

\* case PROC_TABLE_UPDATE
dispatch_update(data, ret, composeOk) ==
    LET c1 == table_msg_end(Cursor(data))
        call == IF handler_update # NULL
                THEN [called |-> "update", cb |-> handler_update, type |-> 0, key |-> <<>>,
                      ret |-> ret]
                ELSE NoCall
        r == HandlerResult(handler_update, ret, NoUpdateHandler)
    IN  IF c1.fatal THEN Abort(c1, NoAdd, NoCall, 0)
        ELSE Break(c1, imsg_compose(Enc32(r), composeOk), call, r, quit)

\* case PROC_TABLE_CLOSE
dispatch_close(data) ==
    Break(Cursor(data), <<>>, NoCall, 0, 1)

\* case PROC_TABLE_CHECK
dispatch_check(data, ret, how) ==
    LET c1 == table_msg_get(Cursor(data), IntSize)
        type == Dec32(SubSeq(data, 1, IntSize))
        call == IF handler_check # NULL
                THEN [called |-> "check", cb |-> handler_check, type |-> type,
                      key |-> KeyAt(c1, data), ret |-> ret]
                ELSE NoCall
        r == HandlerResult(handler_check, ret, NoCheckHandler)
        c2 == table_msg_get(c1, c1.rlen)
        c3 == table_msg_end(c2)
        b1 == table_msg_add(NoAdd, Enc32(r), how)
    IN  IF c1.fatal THEN Abort(c1, NoAdd, NoCall, 0)
        ELSE IF ~KeyOk(c1, data) THEN Abort(c1, NoAdd, NoCall, 0)
        ELSE IF c2.fatal THEN Abort(c2, NoAdd, call, r)
        ELSE IF c3.fatal THEN Abort(c3, NoAdd, call, r)
        ELSE IF b1.fatal THEN Abort(c3, b1, call, r)
        ELSE Break(c3, table_msg_close(b1), call, r, quit)

\* the tail shared by LOOKUP and FETCH: add r, add the value if (r == 1),
\* close
reply_with_value(c, call, r, res, how1, how2) ==
    LET b1 == table_msg_add(NoAdd, Enc32(r), how1)
        b2 == IF HasValue(r)
              THEN table_msg_add(b1, SubSeq(res, 1, strlen(res) + 1), how2)
              ELSE b1
    IN  IF b1.fatal THEN Abort(c, b1, call, r)
        ELSE IF b2.fatal THEN Abort(c, b2, call, r)
        ELSE Break(c, table_msg_close(b2), call, r, quit)

\* case PROC_TABLE_LOOKUP
dispatch_lookup(data, ret, res, how1, how2) ==
    LET c1 == table_msg_get(Cursor(data), IntSize)
        type == Dec32(SubSeq(data, 1, IntSize))
        call == IF handler_lookup # NULL
                THEN [called |-> "lookup", cb |-> handler_lookup, type |-> type,
                      key |-> KeyAt(c1, data), ret |-> ret]
                ELSE NoCall
        r == HandlerResult(handler_lookup, ret, NoLookupHandler)
        c2 == table_msg_get(c1, c1.rlen)
        c3 == table_msg_end(c2)
    IN  IF c1.fatal THEN Abort(c1, NoAdd, NoCall, 0)
        ELSE IF ~KeyOk(c1, data) THEN Abort(c1, NoAdd, NoCall, 0)
        ELSE IF c2.fatal THEN Abort(c2, NoAdd, call, r)
        ELSE IF c3.fatal THEN Abort(c3, NoAdd, call, r)
        ELSE reply_with_value(c3, call, r, res, how1, how2)

\* case PROC_TABLE_FETCH
dispatch_fetch(data, ret, res, how1, how2) ==
    LET c1 == table_msg_get(Cursor(data), IntSize)
        c2 == table_msg_end(c1)
        type == Dec32(SubSeq(data, 1, IntSize))
        call == IF handler_fetch # NULL
                THEN [called |-> "fetch", cb |-> handler_fetch, type |-> type, key |-> <<>>,
                      ret |-> ret]
                ELSE NoCall
        r == HandlerResult(handler_fetch, ret, NoFetchHandler)
    IN  IF c1.fatal THEN Abort(c1, NoAdd, NoCall, 0)
        ELSE IF c2.fatal THEN Abort(c2, NoAdd, NoCall, 0)
        ELSE reply_with_value(c2, call, r, res, how1, how2)

\* a default case that ignores the message
dispatch_default_Ignored(data) ==
    Break(Cursor(data), <<>>, NoCall, 0, quit)

\* default: bad message
dispatch_default(data) ==
    Abort(Cursor(data), NoAdd, NoCall, 0)

(* --------------------------- handler registry -------------------------- *)

CanRegister == pc = "setup" /\ nreg < MaxReg

loop_vars ==
    <<quit, imsg, rpos, rlen, buf, navail, nframes, wq, sent, pc, stop, ndisp, last,
      checks>>

\* table_api_on_update(cb)
table_api_on_update(cb) ==
    /\ CanRegister
    /\ handler_update' = cb
    /\ nreg' = nreg + 1
    /\ regcall' = [slot |-> "update", cb |-> cb]
    /\ UNCHANGED <<handler_check, handler_lookup, handler_fetch, loop_vars>>

\* table_api_on_check that stores into the slot of lookup
table_api_on_check_WrongSlot(cb) ==
    /\ CanRegister
    /\ handler_lookup' = cb
    /\ nreg' = nreg + 1
    /\ regcall' = [slot |-> "check", cb |-> cb]
    /\ UNCHANGED <<handler_update, handler_check, handler_fetch, loop_vars>>

\* table_api_on_check(cb)
table_api_on_check(cb) ==
    /\ CanRegister
    /\ handler_check' = cb
    /\ nreg' = nreg + 1
    /\ regcall' = [slot |-> "check", cb |-> cb]
    /\ UNCHANGED <<handler_update, handler_lookup, handler_fetch, loop_vars>>

\* table_api_on_lookup(cb)
table_api_on_lookup(cb) ==
    /\ CanRegister
    /\ handler_lookup' = cb
    /\ nreg' = nreg + 1
    /\ regcall' = [slot |-> "lookup", cb |-> cb]
    /\ UNCHANGED <<handler_update, handler_check, handler_fetch, loop_vars>>

\* table_api_on_fetch(cb)
table_api_on_fetch(cb) ==
    /\ CanRegister
    /\ handler_fetch' = cb
    /\ nreg' = nreg + 1
    /\ regcall' = [slot |-> "fetch", cb |-> cb]
    /\ UNCHANGED <<handler_update, handler_check, handler_lookup, loop_vars>>

(* ------------------------------ session loop --------------------------- *)

\* table_api_dispatch() is entered: imsg_init(&ibuf, 0)
Enter ==
    /\ pc = "setup"
    /\ pc' = "loop"
    /\ regcall' = NoReg
    /\ UNCHANGED <<handlers, quit, imsg, rpos, rlen, buf, navail, nframes, wq, sent,
                   stop, nreg, ndisp, last, checks>>

\* n = imsg_get(&ibuf, &imsg) returns a frame: if (n)
HasFrame == pc = "loop" /\ navail > 0

\* QuitSet with the test of quit left out
QuitSet_Ignored(q) == FALSE

\* if (quit) break;
QuitSet(q) == q # 0

\* imsg_flush() that is never reached
imsg_flush_NotCalled(q, nw) == [sent |-> <<>>, wq |-> q]

\* imsg_flush(&ibuf) on the queue q: the first nw replies are written; with
\* nw short of the queue it returned -1 and the rest stays queued.  handed
\* marks a reply that an imsg_flush() call has been made for.
imsg_flush(q, nw) ==
    LET h == [i \in 1..Len(q) |-> [q[i] EXCEPT !.handed = TRUE]]
    IN  [sent |-> SubSeq(h, 1, nw), wq |-> SubSeq(h, nw + 1, Len(h))]

\* the loop iteration in which imsg_get() returned frame f and
\* table_msg_dispatch() did out: abort, or break on quit, or imsg_flush()
\* and continue.  imsg_flush() writes the first nw queued replies; with
\* nw short of the queue it returned -1, which the loop does not look at.
Iteration(f, out) ==
    LET q == wq \o [i \in 1..Len(out.queued) |->
                      [type |-> out.queued[i].type, data |-> out.queued[i].data,
                       req |-> ndisp + 1, handed |-> FALSE]]
    IN  /\ HasFrame
        /\ navail' = navail - 1
        /\ imsg' = f
        /\ rpos' = out.rpos
        /\ rlen' = out.rlen
        /\ quit' = out.quit
        /\ buf' = out.buf
        /\ ndisp' = ndisp + 1
        /\ last' = [call |-> out.call, r |-> out.r, replies |-> Len(out.queued),
                    outcome |-> out.outcome, fault |-> out.fault]
        /\ IF out.outcome = "fatal"
           THEN /\ pc' = "aborted"
                /\ stop' = "fatalx"
                /\ wq' = q
                /\ sent' = sent
           ELSE IF QuitSet(out.quit)
           THEN /\ pc' = "returned"
                /\ stop' = "quit"
                /\ wq' = q
                /\ sent' = sent
           ELSE /\ pc' = "loop"
                /\ stop' = stop
                /\ \E nw \in 0..Len(q) :
                     /\ sent' = sent \o imsg_flush(q, nw).sent
                     /\ wq' = imsg_flush(q, nw).wq
        /\ UNCHANGED <<handlers, nframes, nreg, regcall>>

FramesOf(t) == {f \in Frames : f.type = t}

\* the inputs of a dispatch are what the handler and the imsg library
\* answer when they are called.  A request refused by the checks made
\* before any such call (probe, the dispatch under default answers, is
\* fatal) asks for none, and takes the default d.
AnswersOf(probe, S, d) == IF probe.outcome = "fatal" THEN {d} ELSE S

\* what a handler call can return: nothing is returned by a slot that is
\* NULL, since it is not called
RetsOf(h) == IF h # NULL THEN Rets ELSE {0}

\* what res[] can hold when the dispatcher reads it, which it does only
\* after a handler returned 1
ResOf(h, ret) == IF h # NULL /\ HasValue(ret) THEN ResBufs ELSE {<<NUL>>}

\* outcomes of the second table_msg_add(), made only if (r == 1)
AddHows2(h, ret) == IF h # NULL /\ HasValue(ret) THEN {"ok", "add_fail"} ELSE {"ok"}

\* the second table_msg_add() is reached only when the first returned, and
\* res[] is copied only when the second does not fail
AddHows2After(how1, h, ret) == IF how1 = "ok" THEN AddHows2(h, ret) ELSE {"ok"}

ResOfAfter(how1, how2, h, ret) ==
    IF how1 = "ok" /\ how2 = "ok" THEN ResOf(h, ret) ELSE {<<NUL>>}

DispatchOpen ==
    /\ HasFrame
    /\ \E f \in FramesOf("PROC_TABLE_OPEN") :
        \E ok \in AnswersOf(dispatch_open(f.data, TRUE), BOOLEAN, TRUE) :
            Iteration(f, dispatch_open(f.data, ok))
    /\ UNCHANGED checks

\* an UPDATE is dispatched.  pure: the backend is a function of its data,
\* which an update it carries out may replace
UpdateStep(pure) ==
    /\ HasFrame
    /\ \E f \in FramesOf("PROC_TABLE_UPDATE") :
        \E ret \in AnswersOf(dispatch_update(f.data, 0, TRUE), RetsOf(handler_update), 0),
           ok \in AnswersOf(dispatch_update(f.data, 0, TRUE), BOOLEAN, TRUE) :
            LET out == dispatch_update(f.data, ret, ok)
            IN  /\ Iteration(f, out)
                /\ checks' = IF pure /\ out.call.called # "none" THEN <<>> ELSE checks

DispatchUpdate == UpdateStep(FALSE)

DispatchUpdatePure == UpdateStep(TRUE)

DispatchClose ==
    /\ HasFrame
    /\ \E f \in FramesOf("PROC_TABLE_CLOSE") :
        Iteration(f, dispatch_close(f.data))
    /\ UNCHANGED checks

\* the arguments of a handler call
ArgsOf(call) == <<call.called, call.cb, call.type, call.key>>

\* a pure handler_check answers as it did when asked the same before
AnswersAsBefore(call) ==
    \A i \in 1..Len(checks) :
        ArgsOf(checks[i].call) = ArgsOf(call) => checks[i].call.ret = call.ret

\* a CHECK is dispatched.  pure: handler_check is a function of its
\* arguments
CheckStep(pure) ==
    /\ HasFrame
    /\ \E f \in FramesOf("PROC_TABLE_CHECK") :
        \E ret \in AnswersOf(dispatch_check(f.data, 0, "ok"), RetsOf(handler_check), 0),
           how \in AnswersOf(dispatch_check(f.data, 0, "ok"), AddHows(NoBuf), "ok") :
            LET out == dispatch_check(f.data, ret, how)
            IN  /\ pure /\ out.call.called # "none" => AnswersAsBefore(out.call)
                /\ Iteration(f, out)
                /\ checks' = IF pure
                              THEN Append(checks, [frame |-> f, call |-> out.call,
                                                   r |-> out.r, queued |-> out.queued,
                                                   outcome |-> out.outcome])
                              ELSE checks

DispatchCheck == CheckStep(FALSE)

DispatchCheckPure == CheckStep(TRUE)

DispatchLookup ==
    /\ HasFrame
    /\ \E f \in FramesOf("PROC_TABLE_LOOKUP") :
        LET probe == dispatch_lookup(f.data, 0, <<NUL>>, "ok", "ok")
        IN  \E ret \in AnswersOf(probe, RetsOf(handler_lookup), 0),
               how1 \in AnswersOf(probe, AddHows(NoBuf), "ok") :
                \E how2 \in AddHows2After(how1, handler_lookup, ret) :
                    \E res \in ResOfAfter(how1, how2, handler_lookup, ret) :
                        Iteration(f, dispatch_lookup(f.data, ret, res, how1, how2))
    /\ UNCHANGED checks

DispatchFetch ==
    /\ HasFrame
    /\ \E f \in FramesOf("PROC_TABLE_FETCH") :
        LET probe == dispatch_fetch(f.data, 0, <<NUL>>, "ok", "ok")
        IN  \E ret \in AnswersOf(probe, RetsOf(handler_fetch), 0),
               how1 \in AnswersOf(probe, AddHows(NoBuf), "ok") :
                \E how2 \in AddHows2After(how1, handler_fetch, ret) :
                    \E res \in ResOfAfter(how1, how2, handler_fetch, ret) :
                        Iteration(f, dispatch_fetch(f.data, ret, res, how1, how2))
    /\ UNCHANGED checks

DispatchDefault ==
    /\ HasFrame
    /\ \E f \in FramesOf("PROC_TABLE_OK") :
        Iteration(f, dispatch_default(f.data))
    /\ UNCHANGED checks

\* what stays as it is when the loop reads or leaves without a dispatch
idle_vars ==
    <<handlers, quit, imsg, rpos, rlen, buf, wq, sent, nreg, ndisp, last, regcall,
      checks>>

\* imsg_get() returned -1: log and break
GetError ==
    /\ pc = "loop"
    /\ pc' = "returned"
    /\ stop' = "imsg_get"
    /\ UNCHANGED <<idle_vars, navail, nframes>>

\* imsg_get() returned 0 and imsg_read() returned n > 0: the bytes read
\* complete k more frames.  What the frames hold is fixed when imsg_get()
\* decodes them; until then the loop sees only the byte count.
ReadFrames ==
    /\ pc = "loop"
    /\ navail = 0
    /\ \E k \in 1..(MaxFrames - nframes) :
         /\ navail' = k
         /\ nframes' = nframes + k
    /\ UNCHANGED <<idle_vars, pc, stop>>

\* a read error that ends the process through fatal()
ReadError_Fatal ==
    /\ pc = "loop"
    /\ navail = 0
    /\ pc' = "aborted"
    /\ stop' = "imsg_read"
    /\ UNCHANGED <<idle_vars, navail, nframes>>

\* imsg_get() returned 0 and imsg_read() returned -1: log and break
ReadError ==
    /\ pc = "loop"
    /\ navail = 0
    /\ pc' = "returned"
    /\ stop' = "imsg_read"
    /\ UNCHANGED <<idle_vars, navail, nframes>>

\* an imsg_read() made, and returning 0, before the buffered frames are
\* decoded
ReadClosed_BeforeDrain ==
    /\ pc = "loop"
    /\ pc' = "returned"
    /\ stop' = "pipe closed"
    /\ UNCHANGED <<idle_vars, navail, nframes>>

\* imsg_get() returned 0 and imsg_read() returned 0: pipe closed, break
ReadClosed ==
    /\ pc = "loop"
    /\ navail = 0
    /\ pc' = "returned"
    /\ stop' = "pipe closed"
    /\ UNCHANGED <<idle_vars, navail, nframes>>

Next ==
    \/ \E cb \in Callbacks : table_api_on_update(cb)
    \/ \E cb \in Callbacks : table_api_on_check(cb)
    \/ \E cb \in Callbacks : table_api_on_lookup(cb)
    \/ \E cb \in Callbacks : table_api_on_fetch(cb)
    \/ Enter
    \/ DispatchOpen
    \/ DispatchUpdate
    \/ DispatchClose
    \/ DispatchCheck
    \/ DispatchLookup
    \/ DispatchFetch
    \/ DispatchDefault
    \/ GetError
    \/ ReadFrames
    \/ ReadError
    \/ ReadClosed

Spec == Init /\ [][Next]_vars

\* the program with a host that makes at most MaxFairReg registrations
NextFair ==
    \/ \E cb \in Callbacks : nreg < MaxFairReg /\ table_api_on_update(cb)
    \/ \E cb \in Callbacks : nreg < MaxFairReg /\ table_api_on_check(cb)
    \/ \E cb \in Callbacks : nreg < MaxFairReg /\ table_api_on_lookup(cb)
    \/ \E cb \in Callbacks : nreg < MaxFairReg /\ table_api_on_fetch(cb)
    \/ Enter
    \/ DispatchOpen
    \/ DispatchUpdate
    \/ DispatchClose
    \/ DispatchCheck
    \/ DispatchLookup
    \/ DispatchFetch
    \/ DispatchDefault
    \/ GetError
    \/ ReadFrames
    \/ ReadError
    \/ ReadClosed

\* the program runs on: a call that is made returns (handlers, imsg_get,
\* imsg_read, imsg_flush), and the host enters table_api_dispatch()
FairSpec == Init /\ [][NextFair]_vars /\ WF_vars(NextFair)

\* the same program over a backend whose check is pure
NextPure ==
    \/ \E cb \in Callbacks : table_api_on_update(cb)
    \/ \E cb \in Callbacks : table_api_on_check(cb)
    \/ \E cb \in Callbacks : table_api_on_lookup(cb)
    \/ \E cb \in Callbacks : table_api_on_fetch(cb)
    \/ Enter
    \/ DispatchOpen
    \/ DispatchUpdatePure
    \/ DispatchClose
    \/ DispatchCheckPure
    \/ DispatchLookup
    \/ DispatchFetch
    \/ DispatchDefault
    \/ GetError
    \/ ReadFrames
    \/ ReadError
    \/ ReadClosed

SpecPure == Init /\ [][NextPure]_vars

(* ------------------------------- claims -------------------------------- *)

Dispatched(types) == ndisp > 0 /\ imsg.type \in types

\* the slot a request type is served by
HandlerOf(t) ==
    CASE t = "PROC_TABLE_UPDATE" -> handler_update
      [] t = "PROC_TABLE_CHECK" -> handler_check
      [] t = "PROC_TABLE_LOOKUP" -> handler_lookup
      [] t = "PROC_TABLE_FETCH" -> handler_fetch
      [] OTHER -> NULL

\* the replies queued for the frame dispatched last, written or not
LastReplies ==
    LET ForLast(m) == m.req = ndisp
    IN  SelectSeq(sent \o wq, ForLast)

\* the result field of a reply: its first IntSize bytes, as an int
ResultOf(m) == Dec32(SubSeq(m.data, 1, IntSize))

\* the payload shapes of section 4.2 / 6 of the specification
ShapeOk(f) ==
    CASE f.type \in {"PROC_TABLE_OPEN", "PROC_TABLE_FETCH"} -> Len(f.data) = IntSize
      [] f.type \in {"PROC_TABLE_UPDATE", "PROC_TABLE_CLOSE"} -> Len(f.data) = 0
      [] f.type \in {"PROC_TABLE_CHECK", "PROC_TABLE_LOOKUP"} -> Len(f.data) > IntSize
      [] OTHER -> FALSE

\* a request the dispatcher accepts
WellFormed(f) ==
    /\ ShapeOk(f)
    /\ f.type \in {"PROC_TABLE_CHECK", "PROC_TABLE_LOOKUP"} => f.data[Len(f.data)] = NUL
    /\ f.type = "PROC_TABLE_OPEN" => Dec32(f.data) = PROC_TABLE_API_VERSION

Served == {"PROC_TABLE_UPDATE", "PROC_TABLE_CHECK", "PROC_TABLE_LOOKUP", "PROC_TABLE_FETCH"}

C2_OneReplyFlushedInOrder ==
    pc = "loop" =>
        /\ wq = <<>>
        /\ Len(sent) = ndisp
        /\ \A i \in 1..Len(sent) : sent[i].req = i

\* C3: after a CLOSE frame is dispatched the loop takes no further step
\* (no decode, no dispatch, no read, no flush), even with frames buffered
\* behind it, and nothing is queued or written for the CLOSE frame.
C3_CloseStopsLoop ==
    /\ [][~Dispatched({"PROC_TABLE_CLOSE"})]_vars
    /\ [](Dispatched({"PROC_TABLE_CLOSE"}) =>
            /\ pc = "returned"
            /\ last.replies = 0
            /\ Len(LastReplies) = 0)

C3_Witness ==
    /\ Dispatched({"PROC_TABLE_CLOSE"})
    /\ navail > 0
    /\ ndisp = 1

\* C4: a LOOKUP or FETCH reply holds the 4-byte result the handler returned
\* (-1 with no handler), followed by a NUL-terminated value if and only if
\* that result is 1; for any other result the payload is the 4 bytes alone.
C4_ValueIffFound ==
    Dispatched({"PROC_TABLE_LOOKUP", "PROC_TABLE_FETCH"}) =>
        \A i \in 1..Len(LastReplies) :
            LET d == LastReplies[i].data
            IN  /\ Len(d) >= IntSize
                /\ ResultOf(LastReplies[i]) = last.r
                /\ HandlerOf(imsg.type) = NULL => last.r = -1
                /\ (ResultOf(LastReplies[i]) = 1) <=> (Len(d) > IntSize)
                /\ Len(d) > IntSize =>
                     /\ d[Len(d)] = NUL
                     /\ \A j \in (IntSize + 1)..(Len(d) - 1) : d[j] # NUL

C4_Witness ==
    /\ Dispatched({"PROC_TABLE_LOOKUP"})
    /\ Len(LastReplies) = 1
    /\ last.r = 1
    /\ Len(LastReplies[1].data) > IntSize + 1

\* C5 (as claimed): a frame of one of the six opcodes whose payload has not
\* the opcode's shape aborts the process, with no handler called and no
\* reply queued.
C5_BadShapeFatal ==
    (Dispatched(Opcodes) /\ ~ShapeOk(imsg)) =>
        /\ pc = "aborted"
        /\ last.call = NoCall
        /\ last.replies = 0

\* C6: a CHECK or LOOKUP frame with nothing after the type tag, or whose
\* last byte is not NUL, aborts before a handler is called and before a
\* reply is queued.
C6_KeyTerminatorChecked ==
    (/\ Dispatched({"PROC_TABLE_CHECK", "PROC_TABLE_LOOKUP"})
     /\ Len(imsg.data) >= IntSize
     /\ (Len(imsg.data) = IntSize \/ imsg.data[Len(imsg.data)] # NUL)) =>
        /\ pc = "aborted"
        /\ last.outcome = "fatal"
        /\ last.call = NoCall
        /\ last.replies = 0
        /\ Len(LastReplies) = 0
        /\ ~buf.open

C6_Witness ==
    /\ Dispatched({"PROC_TABLE_LOOKUP"})
    /\ handler_lookup # NULL
    /\ Len(imsg.data) > IntSize
    /\ imsg.data[Len(imsg.data)] # NUL
    /\ pc = "aborted"

\* C7 (as claimed): an OPEN frame with the supported version gets exactly
\* one reply, with an empty payload; one with another version aborts the
\* process with no reply.
C7_OpenAnswered ==
    (Dispatched({"PROC_TABLE_OPEN"}) /\ Len(imsg.data) = IntSize) =>
        IF Dec32(imsg.data) = PROC_TABLE_API_VERSION
        THEN /\ last.outcome = "break"
             /\ Len(LastReplies) = 1
             /\ LastReplies[1].data = <<>>
        ELSE /\ pc = "aborted"
             /\ Len(LastReplies) = 0

\* C8 (as claimed): a failed read, a reply that could not be queued and a
\* flush that left replies unwritten each abort the process.
C8_TransportFailureFatal ==
    /\ stop \in {"imsg_get", "imsg_read"} => pc = "aborted"
    /\ (Dispatched({"PROC_TABLE_OPEN", "PROC_TABLE_UPDATE"}) /\ last.outcome = "break") =>
           last.replies = 1
    /\ pc = "loop" => wq = <<>>

\* C9 (as claimed): a well-formed UPDATE, CHECK, LOOKUP or FETCH whose
\* handler is absent or returns 0 or -1 gets a normal reply, the process
\* does not abort, quit stays clear and the loop goes on.
C9_NegativeResultNotFatal ==
    (/\ Dispatched(Served)
     /\ WellFormed(imsg)
     /\ (HandlerOf(imsg.type) = NULL \/ last.r \in {0, -1})) =>
        /\ last.outcome = "break"
        /\ Len(LastReplies) = 1
        /\ quit = 0
        /\ pc = "loop"

\* C10 (as claimed): the key a check or lookup handler is called with is
\* the payload after the type tag without its last byte.
C10_KeyFillsPayload ==
    (/\ Dispatched({"PROC_TABLE_CHECK", "PROC_TABLE_LOOKUP"})
     /\ last.call.called # "none") =>
        last.call.key = SubSeq(imsg.data, IntSize + 1, Len(imsg.data) - 1)

\* C11: a well-formed CHECK or UPDATE with a registered handler invokes it,
\* and the payload of the reply is exactly one int, IntSize bytes, that
\* decodes to the value the handler returned, whatever that value is;
\* nothing is appended to it
C11_ResultRelayedUnchanged ==
    (/\ Dispatched({"PROC_TABLE_CHECK", "PROC_TABLE_UPDATE"})
     /\ WellFormed(imsg)
     /\ HandlerOf(imsg.type) # NULL)
        => /\ last.call.called # "none"
           /\ last.call.cb = HandlerOf(imsg.type)
           /\ last.r = last.call.ret
           /\ \A i \in 1..Len(LastReplies) :
                 /\ Len(LastReplies[i].data) = IntSize
                 /\ LastReplies[i].data = Enc32(last.call.ret)
                 /\ Dec32(LastReplies[i].data) = last.call.ret

\* a CHECK, and an UPDATE, answered with a handler result that is none of
\* -1, 0, 1
C11_Witness ==
    /\ ndisp = 2
    /\ imsg.type = "PROC_TABLE_UPDATE" /\ WellFormed(imsg)
    /\ handler_update # NULL /\ handler_check # NULL
    /\ last.call.ret = MaxRet
    /\ Len(sent) = 2
    /\ Len(sent[1].data) = IntSize /\ ResultOf(sent[1]) = MaxRet
    /\ sent[2].data = Enc32(MaxRet)
    /\ Len(LastReplies) = 1

Stopped == pc \in {"returned", "aborted"}

\* C13 as stated: the loop stopped by CLOSE, by end-of-file or by a read
\* error has returned normally, and the process is aborted only on a
\* request that fails validation
C13_OnlyValidationAborts ==
    /\ stop \in {"quit", "pipe closed", "imsg_read"} => pc = "returned"
    /\ pc = "aborted" => ~WellFormed(imsg)

\* C13, amended: the loop stopped by CLOSE, by end-of-file or by a read
\* error is at the one return of table_api_dispatch; nothing is dispatched
\* or read after the loop stopped; and the process is aborted only by a
\* fatalx() inside a dispatch: on a request that fails validation, or in
\* table_msg_add() when the reply to a valid request cannot be built
C13_StopsReturnNormally ==
    /\ [](/\ stop \in {"quit", "pipe closed", "imsg_read"} => pc = "returned"
          /\ stop = "quit" => Dispatched({"PROC_TABLE_CLOSE"}) /\ quit = 1
          /\ pc = "returned" => stop \in {"quit", "pipe closed", "imsg_read", "imsg_get"}
          /\ pc = "aborted"
                => /\ stop = "fatalx" /\ last.outcome = "fatal"
                   /\ WellFormed(imsg) <=> last.fault = "table_msg_add"
                   /\ ~WellFormed(imsg) <=> last.fault = "request")
    /\ [][~Stopped]_vars

\* two frames were dispatched and answered, then the read failed
C13_Witness ==
    /\ stop = "imsg_read" /\ pc = "returned"
    /\ ndisp = 2 /\ navail = 0
    /\ Len(sent) = 2

\* C14: a frame whose type is none of the six opcodes aborts the process;
\* no handler is called, no reply is queued or begun, the terminate flag is
\* not set, and none of its payload is consumed
C14_UnknownOpcodeFatal ==
    (ndisp > 0 /\ imsg.type \notin Opcodes)
        => /\ pc = "aborted" /\ stop = "fatalx"
           /\ last.outcome = "fatal" /\ last.fault = "request"
           /\ last.call = NoCall
           /\ last.replies = 0 /\ Len(LastReplies) = 0
           /\ buf = NoBuf
           /\ quit = 0
           /\ rpos = 0 /\ rlen = Len(imsg.data)

\* after an answered request, with a handler registered, a frame of
\* unknown type that carries a payload
C14_Witness ==
    /\ ndisp = 2
    /\ imsg.type \notin Opcodes
    /\ Len(imsg.data) > IntSize
    /\ handler_check # NULL
    /\ Len(sent) = 1
    /\ pc = "aborted"

\* a CHECK or LOOKUP whose payload is the type tag and one NUL byte
EmptyKeyRequest ==
    /\ Dispatched({"PROC_TABLE_CHECK", "PROC_TABLE_LOOKUP"})
    /\ Len(imsg.data) = IntSize + 1
    /\ imsg.data[IntSize + 1] = NUL

\* the handler, if one is registered, was called with the empty key
EmptyKeyPassed ==
    IF HandlerOf(imsg.type) # NULL
    THEN /\ last.call.called # "none"
         /\ last.call.cb = HandlerOf(imsg.type)
         /\ last.call.type = Dec32(SubSeq(imsg.data, 1, IntSize))
         /\ last.call.key = <<>>
    ELSE last.call = NoCall /\ last.r = -1

\* C15 as stated: the request with the empty key always gets the handler
\* called with the empty key and one reply queued, and the loop is not
\* left for it
C15_EmptyKeyAnswered ==
    EmptyKeyRequest
        => /\ EmptyKeyPassed
           /\ last.outcome = "break"
           /\ Len(LastReplies) = 1
           /\ pc # "aborted" /\ quit = 0

\* C15, amended: the request with the empty key passes validation and the
\* handler, if registered, is called with the empty key; then one reply
\* carrying the result is queued and the loop is not left for it, unless
\* building the reply fails in table_msg_add(), which aborts.  With nothing after the
\* type tag the request is rejected before the handler is called.
C15_EmptyKeyAccepted ==
    /\ EmptyKeyRequest
          => /\ EmptyKeyPassed
             /\ last.outcome = "fatal" => last.fault = "table_msg_add" /\ pc = "aborted"
             /\ last.outcome = "break"
                   => /\ Len(LastReplies) = 1
                      /\ ResultOf(LastReplies[1]) = last.r
                      /\ pc # "aborted" /\ quit = 0
    /\ (Dispatched({"PROC_TABLE_CHECK", "PROC_TABLE_LOOKUP"}) /\ Len(imsg.data) = IntSize)
          => /\ pc = "aborted" /\ last.fault = "request"
             /\ last.call = NoCall
             /\ rpos = IntSize /\ rlen = 0

\* a LOOKUP of the empty key that found a value, answered, and the loop
\* went on to the next frame
C15_Witness ==
    /\ ndisp = 2
    /\ sent # <<>>
    /\ sent[1].req = 1
    /\ Len(sent[1].data) > IntSize /\ ResultOf(sent[1]) = 1
    /\ EmptyKeyRequest
    /\ imsg.type = "PROC_TABLE_CHECK"
    /\ handler_check # NULL /\ handler_lookup # NULL
    /\ last.call.key = <<>>
    /\ last.outcome = "break"
    /\ pc = "loop"

\* the cursor as the program holds it now
CursorNow == [fatal |-> FALSE, rpos |-> rpos, rlen |-> rlen]

\* C16: in every reachable state the cursor lies within the payload of the
\* current frame, position + remaining = payload length; and from there
\* table_msg_get(dst, n) with n > remaining is fatal and moves nothing,
\* with n <= remaining it takes exactly n off remaining and adds n to the
\* position
C16_CursorAccounting ==
    /\ rpos + rlen = Len(imsg.data)
    /\ rpos >= 0 /\ rlen >= 0
    /\ \A n \in 0..(Len(imsg.data) + 1) :
          LET d == table_msg_get(CursorNow, n)
          IN  IF n > rlen
              THEN d.fatal /\ d.rpos = rpos /\ d.rlen = rlen
              ELSE /\ ~d.fatal
                   /\ d.rlen = rlen - n
                   /\ d.rpos = rpos + n
                   /\ d.rpos + d.rlen = Len(imsg.data)

\* a CHECK that was stopped after its type was read: the cursor stands
\* behind the type, with the key bytes still ahead
C16_Witness ==
    /\ ndisp = 2
    /\ Dispatched({"PROC_TABLE_CHECK"})
    /\ pc = "aborted"
    /\ rpos = IntSize
    /\ rlen = MaxTail

\* C17: the terminate flag is 0 or 1; it is set only by the dispatch of a
\* CLOSE, which always sets it; no other step changes it and nothing clears
\* it; the loop tests it after every dispatch, so it never goes on to
\* another frame with the flag set
C17_QuitOnlyByClose ==
    /\ [](/\ quit \in {0, 1}
          /\ quit # 0 => Dispatched({"PROC_TABLE_CLOSE"}) /\ last.outcome = "break"
          /\ quit # 0 => pc = "returned" /\ stop = "quit"
          /\ Dispatched({"PROC_TABLE_CLOSE"}) => quit = 1)
    /\ [][quit' # quit
            => /\ quit = 0 /\ quit' = 1
               /\ ndisp' = ndisp + 1
               /\ imsg'.type = "PROC_TABLE_CLOSE"]_vars
    /\ [][quit # 0 => quit' = quit]_vars

\* an UPDATE served by its handler and answered, then a CLOSE
C17_Witness ==
    /\ quit = 1
    /\ ndisp = 2
    /\ imsg.type = "PROC_TABLE_CLOSE"
    /\ handler_update # NULL
    /\ Len(sent) = 1 /\ Len(sent[1].data) = IntSize
    /\ handler_check = NULL /\ handler_lookup = NULL /\ handler_fetch = NULL

\* the four slots by the name of their operation
SlotNames == {"update", "check", "lookup", "fetch"}

SlotOf(name) ==
    CASE name = "update" -> handler_update
      [] name = "check" -> handler_check
      [] name = "lookup" -> handler_lookup
      [] name = "fetch" -> handler_fetch

\* the operation a request type is served by
OperationOf(t) ==
    CASE t = "PROC_TABLE_UPDATE" -> "update"
      [] t = "PROC_TABLE_CHECK" -> "check"
      [] t = "PROC_TABLE_LOOKUP" -> "lookup"
      [] t = "PROC_TABLE_FETCH" -> "fetch"
      [] OTHER -> "none"

\* C18: right after a registration its slot holds the callback just given,
\* whatever it held before, and the three other slots hold what they held;
\* no dispatch and no other step of the loop changes a slot; a dispatch
\* calls at most the slot of its own operation, with the callback that
\* slot holds, and calls it whenever the request is well-formed and the
\* slot is not empty
C18_RegistryLastWriteWins ==
    /\ [](regcall # NoReg => SlotOf(regcall.slot) = regcall.cb)
    /\ [][nreg' # nreg
            => /\ regcall'.slot \in SlotNames
               /\ handler_update' # handler_update => regcall'.slot = "update"
               /\ handler_check' # handler_check => regcall'.slot = "check"
               /\ handler_lookup' # handler_lookup => regcall'.slot = "lookup"
               /\ handler_fetch' # handler_fetch => regcall'.slot = "fetch"]_vars
    /\ [][nreg' = nreg => UNCHANGED handlers]_vars
    /\ [](ndisp > 0
            => /\ last.call.called # "none"
                    => /\ last.call.called = OperationOf(imsg.type)
                       /\ last.call.cb = HandlerOf(imsg.type)
                       /\ last.call.cb # NULL
               /\ (imsg.type \in Served /\ WellFormed(imsg) /\ HandlerOf(imsg.type) # NULL)
                    => last.call.called = OperationOf(imsg.type))

\* check was registered twice and nothing else; a CHECK was then served
\* by the callback registered second
C18_Witness ==
    /\ nreg = 2
    /\ handler_check = NumCb
    /\ handler_update = NULL /\ handler_lookup = NULL /\ handler_fetch = NULL
    /\ Dispatched({"PROC_TABLE_CHECK"})
    /\ last.call.called = "check" /\ last.call.cb = NumCb
    /\ Len(LastReplies) = 1

\* C19: the loop ends, by return or by abort; the channel of the model
\* delivers at most MaxFrames frames and every read returns, so that a
\* CLOSE, an end-of-file or a read error is always on its way.  When the
\* loop has seen end-of-file or a read error, no frame is left buffered:
\* every frame delivered before was dispatched, and frames are taken one
\* per iteration, from the head of the buffer, only once delivered.
C19_LoopTerminates ==
    /\ <>Stopped
    /\ [](stop \in {"pipe closed", "imsg_read"} => navail = 0 /\ ndisp = nframes)
    /\ [](ndisp + navail <= nframes)
    /\ [][ndisp' # ndisp
            => ndisp' = ndisp + 1 /\ navail' = navail - 1 /\ nframes' = nframes]_vars

\* frames arrived in one read, all were dispatched and answered, and then
\* the pipe was found closed
C19_Witness ==
    /\ stop = "pipe closed" /\ pc = "returned"
    /\ nframes = MaxFrames /\ ndisp = MaxFrames /\ navail = 0
    /\ Len(sent) = MaxFrames

\* C20: whenever the program is not inside a dispatch that was aborted, the
\* pending reply buffer is unallocated, so each dispatch begins and normally
\* ends with none; a frame gets at most one reply, which holds what its own
\* dispatch added and nothing else; and every reply still queued after an
\* iteration, or when the loop has returned, has been through a call of
\* imsg_flush()
C20_NoReplyLeftBehind ==
    /\ pc # "aborted" => buf = NoBuf
    /\ (ndisp > 0 /\ last.outcome = "break") => buf = NoBuf
    /\ Len(LastReplies) <= 1
    /\ \A i \in 1..Len(LastReplies) :
          /\ last.replies = 1
          /\ imsg.type = "PROC_TABLE_OPEN" => LastReplies[i].data = <<>>
          /\ imsg.type \in {"PROC_TABLE_UPDATE", "PROC_TABLE_CHECK"}
                => LastReplies[i].data = Enc32(last.r)
          /\ imsg.type \in {"PROC_TABLE_LOOKUP", "PROC_TABLE_FETCH"}
                => /\ SubSeq(LastReplies[i].data, 1, IntSize) = Enc32(last.r)
                   /\ ~HasValue(last.r) => Len(LastReplies[i].data) = IntSize
    /\ \A i, j \in 1..Len(sent \o wq) : i < j => (sent \o wq)[i].req < (sent \o wq)[j].req
    /\ pc \in {"loop", "returned"}
          => /\ \A i \in 1..Len(wq) : wq[i].handed
             /\ \A i \in 1..Len(sent) : sent[i].handed

\* a LOOKUP answered with a value and its reply written, then a CLOSE
C20_Witness ==
    /\ stop = "quit" /\ pc = "returned"
    /\ ndisp = 2
    /\ wq = <<>>
    /\ Len(sent) = 1 /\ sent[1].req = 1 /\ sent[1].handed
    /\ Len(sent[1].data) = IntSize + MaxRes
    /\ buf = NoBuf
====
